---- MODULE Spec2Model ----
(***************************************************************************)
(* Feed normalisation and pagination engine of the LinkedIn activity       *)
(* fetcher (src/linkedin_activity_fetcher.py) and the web worker that      *)
(* drives it (src/web_app.py).                                             *)
(*                                                                         *)
(*   Spec         one run of run_scrape: the range loop, the decoding of   *)
(*                the saved pages, the result handed to run_scraper.       *)
(*   SpecExtract  extract_posts_from_response applied to one page drawn    *)
(*                from a bounded universe of pages.                        *)
(***************************************************************************)
EXTENDS Integers, Sequences, FiniteSets, TLC

\* ------------------------------------------------------------------ bounds
\* Size of one range.  The code's default is 20 (parse_ranges); the run is
\* explored with a small increment so that full, short and oversize pages
\* all occur.
Increment == 2
\* Largest number of ranges of one run.
MaxPages == 3
\* Identifiers (entityUrn) 1..MaxUrn; 0 stands for the empty string.
MaxUrn == 2
\* Largest number of range files of one run that fail to be written.
MaxSaveFaults == 1
\* Longest 'included' list of a page of SpecExtract.
MaxIncluded == 2
\* Longest '*elements' list of a page of SpecExtract.
MaxRefs == 2
MaxStreams == 3
MaxArtifacts == 3
MaxWorkers == 2
MaxUsers == 1
TIMEOUT_SECONDS == 2

MaxTarget == MaxPages * Increment

\* ------------------------------------------------------------ Python values
None == "None"
\* A key that the JSON object does not have.
Absent == "absent"
\* A key whose JSON value is null.
Null == "null"

RECURSIVE SeqsUpTo(_, _)
\* All sequences over S of length at most n.
SeqsUpTo(S, n) ==
    IF n = 0 THEN {<<>>}
    ELSE LET shorter == SeqsUpTo(S, n - 1)
         IN  shorter \cup {Append(s, x) : s \in {t \in shorter : Len(t) = n - 1}, x \in S}

RECURSIVE Concat(_)
\* The concatenation of a sequence of sequences.
Concat(ss) == IF ss = <<>> THEN <<>> ELSE Head(ss) \o Concat(Tail(ss))

\* ---------------------------------------------------------------- entities
\* One entity of 'included'.  Each optional field records how the JSON
\* object carries it:
\*   commentary     Absent | Null | "empty" ({text:{text:''}}) | "text"
\*   socialContent  Absent | Null | "url" (a shareUrl is present)
\*   actor          Absent | Null | "noimage" (actor.image is null)
\*                  | "profile" (the image chain ends in a *profile reference)
\*   content        Absent | Null | "plain" (no media component) | "video"
\*                  (linkedInVideoComponent.*videoPlayMetadata = videoRef)
\*                  | "images" (imageComponent.images = images)
\*   progressiveStreams   the streams of a VideoPlayMetadata entity
Entity(t, u, c, s, a, k, r, im, ps) ==
    [type |-> t, entityUrn |-> u, commentary |-> c, socialContent |-> s,
     actor |-> a, content |-> k, videoRef |-> r, images |-> im,
     progressiveStreams |-> ps]

Stream(w, h, u) == [width |-> w, height |-> h, url |-> u]

Artifact(w, seg) == [width |-> w, fileIdentifyingUrlPathSegment |-> seg]

\* One element of imageComponent.images; attributes[0].detailData.vectorImage.
Image(root, arts) == [rootUrl |-> root, artifacts |-> arts]

\* -------------------------------------------------------- extract_video_url
\* Index of the first entity of included whose entityUrn is ref, 0 if none.
FirstWithUrn(included, ref) ==
    LET hits == {i \in 1..Len(included) : included[i].entityUrn = ref}
    IN  IF hits = {} THEN 0 ELSE CHOOSE i \in hits : \A j \in hits : i <= j

\* The streams that survive the two 'continue's of the loop (a stream of the
\* model always has one streaming location; url '' stands for none).
UsableStreams(streams) == SelectSeq(streams, LAMBDA st : st.url # "")

\* The url of the last stream whose width or height is res, '' if none.
RECURSIVE LastWithRes(_, _)
LastWithRes(streams, res) ==
    IF streams = <<>> THEN ""
    ELSE LET last == streams[Len(streams)]
         IN  IF last.width = res \/ last.height = res THEN last.url
             ELSE LastWithRes(SubSeq(streams, 1, Len(streams) - 1), res)

PreferredRes == 640
SecondaryRes == 720

\* Variant: the first stream that has a url, whatever its resolution.
SelectStreamFirst(streams, prefer_640p) ==
    LET usable == UsableStreams(streams)
    IN  IF usable = <<>> THEN "" ELSE usable[1].url

SelectStream(streams, prefer_640p) ==
    LET usable == UsableStreams(streams)
        video_url_640p == LastWithRes(usable, PreferredRes)
        video_url_720p == LastWithRes(usable, SecondaryRes)
        video_url_fallback == IF usable = <<>> THEN "" ELSE usable[1].url
        first == IF prefer_640p THEN video_url_640p ELSE video_url_720p
        second == IF prefer_640p THEN video_url_720p ELSE video_url_640p
    IN  IF first # "" THEN first
        ELSE IF second # "" THEN second
        ELSE video_url_fallback

extract_video_url(item, included, prefer_640p) ==
    IF item.content = Null THEN ""             \* AttributeError, caught: ''
    ELSE IF item.content # "video" THEN ""     \* no *videoPlayMetadata
    ELSE IF item.videoRef = 0 THEN ""
    ELSE LET i == FirstWithUrn(included, item.videoRef)
         IN  IF i = 0 THEN ""
             ELSE SelectStream(included[i].progressiveStreams, prefer_640p)

\* ------------------------------------------------------- extract_image_urls
\* Variant: the last artifact of the largest width.
BestArtifactLast(artifacts) ==
    CHOOSE i \in 1..Len(artifacts) :
        /\ \A j \in 1..Len(artifacts) : artifacts[j].width <= artifacts[i].width
        /\ \A j \in (i + 1)..Len(artifacts) : artifacts[j].width < artifacts[i].width

\* Index of the artifact Python's max(artifacts, key=width) returns: the
\* first one of the largest width.
BestArtifact(artifacts) ==
    CHOOSE i \in 1..Len(artifacts) :
        /\ \A j \in 1..Len(artifacts) : artifacts[j].width <= artifacts[i].width
        /\ \A j \in 1..(i - 1) : artifacts[j].width < artifacts[i].width

\* The url of one image, <<>> when the image is skipped ('continue').
ImageUrl(image) ==
    IF image.rootUrl = "" \/ image.artifacts = <<>> THEN <<>>
    ELSE LET seg == image.artifacts[BestArtifact(image.artifacts)].fileIdentifyingUrlPathSegment
         IN  IF seg = "" THEN <<>> ELSE << <<image.rootUrl, seg>> >>

RECURSIVE ImageUrls(_)
ImageUrls(images) ==
    IF images = <<>> THEN <<>> ELSE ImageUrl(Head(images)) \o ImageUrls(Tail(images))

extract_image_urls(item) ==
    IF item.content = Null THEN <<>>           \* AttributeError, caught: []
    ELSE IF item.content # "images" THEN <<>>
    ELSE ImageUrls(item.images)

\* ---------------------------------------------- extract_posts_from_response
\* A decoded response body: the ordered reference list
\* data.data.feedDashProfileUpdatesByMemberShareFeed.'*elements', the flat
\* entity list 'included' and metadata.paginationToken (Absent, '' or a
\* token).
Page(elements, included, token) ==
    [elements |-> elements, included |-> included, token |-> token]

UpdateType == "com.linkedin.voyager.dash.feed.Update"

\* post_lookup: the dictionary entityUrn -> item built from 'included'.  A
\* later entity overwrites an earlier one of the same entityUrn; the result
\* is the index of the entity stored under urn, 0 when the key is missing.
post_lookup(included, urn) ==
    LET hits == {i \in 1..Len(included) :
                    /\ included[i].type = UpdateType
                    /\ included[i].entityUrn # 0
                    /\ included[i].entityUrn = urn}
    IN  IF hits = {} THEN 0 ELSE CHOOSE i \in hits : \A j \in hits : j <= i

\* The item raises AttributeError outside every inner try: '.get' is called
\* on the None that item.get(key, {}) returns for a key whose value is null.
RaisesAttributeError(item) ==
    \/ item.commentary = Null
    \/ item.socialContent = Null
    \/ item.actor = Null

\* post_info of one looked-up item at position idx of '*elements'.
post_info(item, included, idx) ==
    [entity_urn |-> item.entityUrn,
     post_text |-> IF item.commentary = "text" THEN "text" ELSE "",
     post_url |-> IF item.socialContent = "url" THEN "url" ELSE "",
     author_profile_urn |-> IF item.actor = "profile" THEN "profile" ELSE "",
     video_url_640p |-> extract_video_url(item, included, TRUE),
     image_urls |-> extract_image_urls(item),
     post_order |-> idx]

\* 'Only add post if it has some content'.
HasContent(post) == post.post_text # "" \/ post.post_url # ""

\* Variant: the loop walks 'included' instead of '*elements'; an entity is
\* numbered by the first reference that names it.
RECURSIVE PostsFromIncluded(_, _, _)
PostsFromIncluded(elements, included, idx) ==
    IF idx > Len(included) THEN <<>>
    ELSE LET refs == {r \in 1..Len(elements) :
                         post_lookup(included, elements[r]) = idx}
             rest == PostsFromIncluded(elements, included, idx + 1)
         IN  IF refs = {} THEN rest
             ELSE LET post == post_info(included[idx], included,
                                        CHOOSE r \in refs : \A q \in refs : r <= q)
                  IN  IF HasContent(post) THEN <<post>> \o rest ELSE rest

\* Variant: a reference that is not in post_lookup ends the loop ('break').
RECURSIVE PostsFromBreak(_, _, _)
PostsFromBreak(elements, included, idx) ==
    IF idx > Len(elements) THEN <<>>
    ELSE LET i == post_lookup(included, elements[idx])
             rest == PostsFromBreak(elements, included, idx + 1)
         IN  IF i = 0 THEN <<>>
             ELSE LET post == post_info(included[i], included, idx)
                  IN  IF HasContent(post) THEN <<post>> \o rest ELSE rest

\* The posts appended by the iterations idx..Len(elements) of the loop.
RECURSIVE PostsFrom(_, _, _)
PostsFrom(elements, included, idx) ==
    IF idx > Len(elements) THEN <<>>
    ELSE LET i == post_lookup(included, elements[idx])
             rest == PostsFrom(elements, included, idx + 1)
         IN  IF i = 0 THEN rest                                  \* continue
             ELSE LET post == post_info(included[i], included, idx)
                  IN  IF HasContent(post) THEN <<post>> \o rest ELSE rest

\* Some iteration of the loop raises.
LoopRaises(elements, included) ==
    \E idx \in 1..Len(elements) :
        LET i == post_lookup(included, elements[idx])
        IN  i # 0 /\ RaisesAttributeError(included[i])

extract_posts_from_response(activity_data) ==
    IF activity_data.elements = <<>> THEN <<>>
    ELSE IF activity_data.included = <<>> THEN <<>>
    ELSE IF LoopRaises(activity_data.elements, activity_data.included)
         THEN <<>>                              \* except Exception: return []
    ELSE PostsFrom(activity_data.elements, activity_data.included, 1)

\* -------------------------------------------------- extract_pagination_token
\* Variant: the token field is returned without the 'if token' test.
extract_pagination_token_unchecked(activity_data) == activity_data.token

extract_pagination_token(activity_data) ==
    IF activity_data.token = Absent \/ activity_data.token = ""
    THEN None ELSE activity_data.token

\* ---------------------------------------------------------------- parse_ranges
RECURSIVE RangesFromUntruncated(_, _, _)
\* Variant: the last range is not cut to target_end.
RangesFromUntruncated(current_start, target_end, increment) ==
    IF current_start < target_end
    THEN << <<current_start, current_start + increment>> >>
            \o RangesFromUntruncated(current_start + increment, target_end, increment)
    ELSE <<>>

RECURSIVE RangesFrom(_, _, _)
\* The while loop of parse_ranges from current_start on.
RangesFrom(current_start, target_end, increment) ==
    IF current_start < target_end
    THEN LET current_end == IF current_start + increment > target_end
                            THEN target_end ELSE current_start + increment
         IN  << <<current_start, current_end>> >>
                \o RangesFrom(current_end, target_end, increment)
    ELSE <<>>

\* parse_ranges of the decimal string of target_end (run_scrape passes
\* str(target_range)).
parse_ranges(target_end, increment) == RangesFrom(0, target_end, increment)

\* One part of ranges_input.split('-'): decimal digits of a number, or
\* anything else (int() raises ValueError).
Part(n) == [numeric |-> TRUE, value |-> n]
BadPart == [numeric |-> FALSE, value |-> 0]

\* parse_ranges of an input given by its '-'-separated parts: target_end is
\* int(parts[-1]); an exception gives [].
parse_ranges_input(parts, increment) ==
    LET last == parts[Len(parts)]
    IN  IF ~last.numeric THEN <<>> ELSE parse_ranges(last.value, increment)

\* ----------------------------------------------------- process_posts_from_files
\* Variant: post_order keeps the number within the page.
PostsOfFileLocal(file) == extract_posts_from_response(file.data)

\* The posts of one saved file (range_str, data), renumbered:
\* global_post_number = range_start + post_order.
PostsOfFile(file) ==
    LET range_start == file.range[1]
        posts == extract_posts_from_response(file.data)
    IN  [k \in 1..Len(posts) |->
            [posts[k] EXCEPT !.post_order = range_start + posts[k].post_order]]

\* Variant: the loop over saved_files starts at the second file.
process_posts_skip_first(saved_files) ==
    IF saved_files = <<>> THEN <<>>
    ELSE Concat([i \in 1..(Len(saved_files) - 1) |-> PostsOfFile(saved_files[i + 1])])

RECURSIVE process_posts_from_files(_)
\* all_posts_data: every saved file's posts, in the order of saved_files
\* (save_individual_post writes posts/post_<n>.json and returns its path).
process_posts_from_files(saved_files) ==
    IF saved_files = <<>> THEN <<>>
    ELSE PostsOfFile(Head(saved_files)) \o process_posts_from_files(Tail(saved_files))

\* ------------------------------------------------------------------- state
VARIABLES
    pc,                \* position of the worker: "start", "fetch", "finish",
                       \* "report", "done"
    ranges,            \* run_scrape: ranges
    idx,               \* run_scrape: idx of the range loop (1-based)
    pagination_token,  \* run_scrape: pagination_token
    saved_files,       \* run_scrape: saved_files, (range, file contents)
    unsaved,           \* the idx whose save_activity_data returned None
    all_posts_data,    \* what process_posts_from_files returned
    result,            \* what run_scrape returned
    requests,          \* the calls of fetch_profile_activity, in order
    responses,         \* what each call returned
    sleeps,            \* the idx after which time.sleep(1) ran
    state,             \* status_manager._state
    error,             \* status_manager._error
    xpc,               \* SpecExtract: "input", "extracted"
    xpage,             \* SpecExtract: the page handed to the extraction
    xposts,            \* SpecExtract: what extract_posts_from_response returned
    fpc,               \* a single call of a function: "off", "called", "returned"
    fargs,             \* its arguments
    fret,              \* what it returned
    now,               \* datetime.now(), in ticks
    started_at,        \* status_manager._started_at
    current_user,      \* status_manager._current_user
    total_users,       \* status_manager._total_users
    completed_users,   \* status_manager._completed_users
    progress,          \* status_manager._progress
    workers,           \* the run_scraper threads started, each one's position
    start_result,      \* what the last call of start_scraping did
    dpc,               \* a download: "off", "loop", "returned"
    dargs,             \* download_image or download_video, max_retries
    attempts,          \* the outcome of each requests.get of the call
    waits,             \* the attempt (0-based) after which time.sleep ran
    dret,              \* what the download returned
    mpc,               \* download_media_for_posts: "off", "loop", "returned",
                       \* "aborted"
    mposts,            \* download_media_for_posts: all_posts_data
    mlog,              \* the assets it has attempted, in order
    stats,             \* download_media_for_posts: stats
    apc,               \* aggregate_feed: "off", "loop", "returned"
    aargs,             \* the stored posts of each user, filter_username
    user_indices,      \* aggregate_feed: user_indices
    interleaved_posts, \* aggregate_feed: interleaved_posts
    pdata,             \* the parser: the Update entities of self.data, as walked
    pidx,              \* how many of them the recursive search has visited
    seen_post_ids,     \* the parser: self.seen_post_ids
    parsed_posts       \* the parser: the list 'posts' being accumulated

runVars == <<pc, ranges, idx, pagination_token, saved_files, unsaved, all_posts_data,
             result, requests, responses, sleeps, state, error>>
scrapeVars == <<pc, ranges, idx, pagination_token, saved_files, unsaved,
                all_posts_data, result, requests, responses, sleeps>>
xVars == <<xpc, xpage, xposts>>
fVars == <<fpc, fargs, fret>>
sVars == <<now, started_at, current_user, total_users,
           completed_users, progress, workers, start_result>>
dVars == <<dpc, dargs, attempts, waits, dret>>
mVars == <<mpc, mposts, mlog, stats>>
aVars == <<apc, aargs, user_indices, interleaved_posts>>
pVars == <<pdata, pidx, seen_post_ids, parsed_posts>>
addVars == <<mVars, aVars, pVars>>
otherVars == <<fVars, sVars, dVars, addVars>>
vars == <<runVars, xVars, otherVars>>

\* fetch_profile_activity returned None (exception, status # 200, bad JSON).
FetchFailed == [none |-> TRUE]

\* ------------------------------------------------- the responses of a run
Tokens == {"t1", "t2"}
TokenFields == {Absent, ""} \cup Tokens

VideoMetadataType == "com.linkedin.videocontent.VideoPlayMetadata"

\* The member's feed as the server holds it: post u has the identifier u;
\* post 1 has text, post 2 neither text nor shareUrl, every later post a
\* shareUrl only.
RunEntity(u) ==
    Entity(UpdateType, u,
           IF u = 1 THEN "text" ELSE "empty",
           IF u > 2 THEN "url" ELSE Absent,
           "profile", Absent, 0, <<>>, <<>>)

\* A response of a run carries the entities its references name, the last
\* referenced first ('included' is not in reference order).
RunIncluded(elements) ==
    [i \in 1..Len(elements) |-> RunEntity(elements[Len(elements) + 1 - i])]

\* The references to the n posts of the feed that follow the first 'offset'.
Window(offset, n) == [i \in 1..n |-> offset + i]

\* What the server may answer, whatever start and count were asked for: no
\* reference; a short, a full or an oversize window at the beginning of the
\* feed (the full one holds post 2, which is skipped); the full window of
\* the second range (every post of it is accepted).
RunElements ==
    {<<>>, Window(0, 1), Window(0, Increment), Window(0, Increment + 1),
     Window(Increment, Increment)}

RunResponses == {Page(e, RunIncluded(e), t) : e \in RunElements, t \in TokenFields}

\* -------------------------------------------------------------------- Init
\* The tuple run_scrape returns.
Result(success, session_dir, err) ==
    [success |-> success, session_dir |-> session_dir, error |-> err]

\* _started_at is None.
NoTime == -1

\* _current_user is None (usernames are 1, 2, ...).
NoUser == 0

\* No function is being called on its own.
CallOff == fpc = "off" /\ fargs = <<>> /\ fret = <<>>

\* ScrapingStatusManager.__init__ and _reset_all_fields, but for _state and
\* _error (_last_heartbeat, which is written and never read by the manager,
\* is left out).
StatusFieldsReset ==
    /\ started_at = NoTime
    /\ current_user = NoUser
    /\ total_users = 0
    /\ completed_users = 0
    /\ progress = ""

StatusOff ==
    /\ now = 0
    /\ StatusFieldsReset
    /\ workers = <<>>
    /\ start_result = "none"

\* No download is being made.
DownloadOff ==
    dpc = "off" /\ dargs = <<>> /\ attempts = <<>> /\ waits = <<>> /\ dret = FALSE

\* 'stats' as download_media_for_posts sets it up.
NoStats ==
    [text_saved |-> 0, text_failed |-> 0, images_downloaded |-> 0,
     images_failed |-> 0, videos_downloaded |-> 0, videos_failed |-> 0]

\* download_media_for_posts is not being called on its own.
MediaOff == mpc = "off" /\ mposts = <<>> /\ mlog = <<>> /\ stats = NoStats

\* Nothing but the part under study is running.
\* aggregate_feed is not being called.
FeedOff ==
    apc = "off" /\ aargs = <<>> /\ user_indices = <<>> /\ interleaved_posts = <<>>

\* No parser is at work.
ParserOff ==
    pdata = <<>> /\ pidx = 0 /\ seen_post_ids = {} /\ parsed_posts = <<>>

AddOff == MediaOff /\ FeedOff /\ ParserOff

Init ==
    /\ pc = "start"
    /\ ranges = <<>>
    /\ idx = 0
    /\ pagination_token = None
    /\ saved_files = <<>>
    /\ unsaved = {}
    /\ all_posts_data = <<>>
    /\ result = Result(FALSE, None, "not returned")
    /\ requests = <<>>
    /\ responses = <<>>
    /\ sleeps = <<>>
    /\ state = "RUNNING"
    /\ error = None
    /\ xpc = "off"
    /\ xpage = Page(<<>>, <<>>, Absent)
    /\ xposts = <<>>
    /\ CallOff /\ StatusOff /\ DownloadOff /\ AddOff

\* run_scrape up to the range loop: login, profileUrn, parse_ranges.
Setup ==
    /\ pc = "start"
    /\ \E loginOk \in BOOLEAN, urnOk \in BOOLEAN, target_range \in 0..MaxTarget :
          LET rs == parse_ranges(target_range, Increment)
              early == IF ~loginOk THEN "Login failed"
                       ELSE IF ~urnOk THEN "Failed to extract profileUrn"
                       ELSE IF rs = <<>> THEN "Failed to parse target range"
                       ELSE None
          IN  IF early # None
              THEN /\ result' = Result(FALSE, None, early)
                   /\ pc' = "report"
                   /\ UNCHANGED <<ranges, idx>>
              ELSE /\ ranges' = rs
                   /\ idx' = 1
                   /\ pc' = "fetch"
                   /\ UNCHANGED result
    /\ UNCHANGED <<pagination_token, saved_files, unsaved, all_posts_data, requests,
                   responses, sleeps, state, error, xVars, otherVars>>

\* save_activity_data(..., range_str): the entry appended to saved_files.
save_activity_data(activity_data, range) == [range |-> range, data |-> activity_data]

\* The range files that could not be written so far: every earlier fetch of
\* the loop succeeded, and each either appended to saved_files or did not.
SaveFaults == Len(responses) - Len(saved_files)

\* Variant: the token is looked at before the page is saved, so the page that
\* came without one is not saved.
FetchRangeTokenFirst ==
    /\ pc = "fetch"
    /\ LET start == ranges[idx][1]
           end == ranges[idx][2]
           count == end - start
       IN  IF idx > 1 /\ pagination_token = None
           THEN /\ pc' = "finish"
                /\ UNCHANGED <<idx, pagination_token, saved_files, unsaved, requests,
                               responses, sleeps>>
           ELSE \E activity_data \in RunResponses \cup {FetchFailed}, saved \in BOOLEAN :
                /\ saved \/ SaveFaults < MaxSaveFaults
                /\ requests' = Append(requests,
                      [start |-> start, count |-> count,
                       pagination_token |-> IF idx = 1 THEN None ELSE pagination_token])
                /\ responses' = Append(responses, activity_data)
                /\ IF activity_data = FetchFailed
                   THEN /\ saved = TRUE
                        /\ pc' = "finish"
                        /\ UNCHANGED <<idx, pagination_token, saved_files, unsaved, sleeps>>
                   ELSE LET token == extract_pagination_token(activity_data)
                        IN  /\ pagination_token' = token
                            /\ unsaved' = IF saved THEN unsaved ELSE unsaved \cup {idx}
                            /\ IF token = None /\ idx < Len(ranges)
                               THEN /\ pc' = "finish"
                                    /\ UNCHANGED <<idx, sleeps, saved_files>>
                               ELSE /\ saved_files' =
                                          IF saved
                                          THEN Append(saved_files,
                                                 save_activity_data(activity_data,
                                                                    <<start, end>>))
                                          ELSE saved_files
                                    /\ sleeps' = Append(sleeps, idx)
                                    /\ IF idx < Len(ranges)
                                       THEN idx' = idx + 1 /\ pc' = "fetch"
                                       ELSE idx' = idx /\ pc' = "finish"
    /\ UNCHANGED <<ranges, all_posts_data, result, state, error, xVars, otherVars>>

\* One iteration of 'for idx, (start, end) in enumerate(ranges, 1)'.
FetchRange ==
    /\ pc = "fetch"
    /\ LET start == ranges[idx][1]
           end == ranges[idx][2]
           count == end - start
       IN  IF idx > 1 /\ pagination_token = None
           THEN \* 'No pagination token from previous response!': break
                /\ pc' = "finish"
                /\ UNCHANGED <<idx, pagination_token, saved_files, unsaved, requests,
                               responses, sleeps>>
           ELSE \E activity_data \in RunResponses \cup {FetchFailed}, saved \in BOOLEAN :
                \* saved: save_activity_data returned a path, not None
                /\ saved \/ SaveFaults < MaxSaveFaults
                /\ requests' = Append(requests,
                      [start |-> start, count |-> count,
                       pagination_token |-> IF idx = 1 THEN None ELSE pagination_token])
                /\ responses' = Append(responses, activity_data)
                /\ IF activity_data = FetchFailed
                   THEN \* 'Failed to fetch range': break
                        /\ saved = TRUE
                        /\ pc' = "finish"
                        /\ UNCHANGED <<idx, pagination_token, saved_files, unsaved, sleeps>>
                   ELSE LET token == extract_pagination_token(activity_data)
                        IN  /\ saved_files' =
                                  IF saved
                                  THEN Append(saved_files,
                                         save_activity_data(activity_data, <<start, end>>))
                                  ELSE saved_files
                            /\ unsaved' = IF saved THEN unsaved ELSE unsaved \cup {idx}
                            /\ pagination_token' = token
                            /\ IF token = None /\ idx < Len(ranges)
                               THEN \* 'No pagination token found': break
                                    /\ pc' = "finish"
                                    /\ UNCHANGED <<idx, sleeps>>
                               ELSE /\ sleeps' = Append(sleeps, idx)
                                    /\ IF idx < Len(ranges)
                                       THEN idx' = idx + 1 /\ pc' = "fetch"
                                       ELSE idx' = idx /\ pc' = "finish"
    /\ UNCHANGED <<ranges, all_posts_data, result, state, error, xVars, otherVars>>

\* Variant: the run succeeds only when every range was saved.
FinishIncompleteFails ==
    /\ pc = "finish"
    /\ all_posts_data' = process_posts_from_files(saved_files)
    /\ result' = IF Len(saved_files) = Len(ranges)
                 THEN Result(TRUE, "session_dir", None)
                 ELSE Result(FALSE, None, "Incomplete")
    /\ pc' = "report"
    /\ UNCHANGED <<ranges, idx, pagination_token, saved_files, unsaved, requests,
                   responses, sleeps, state, error, xVars, otherVars>>

\* run_scrape after the loop: process_posts_from_files, the media download
\* and 'return True, self.session_dir, None'.
Finish ==
    /\ pc = "finish"
    /\ all_posts_data' = process_posts_from_files(saved_files)
    /\ result' = Result(TRUE, "session_dir", None)
    /\ pc' = "report"
    /\ UNCHANGED <<ranges, idx, pagination_token, saved_files, unsaved, requests,
                   responses, sleeps, state, error, xVars, otherVars>>

\* add_user.run_scraper after run_scrape returned: complete_scraping or
\* fail_scraping, then ensure_cleanup; each acts only while RUNNING.
ReportStatus ==
    /\ pc = "report"
    /\ IF state # "RUNNING"
       THEN UNCHANGED <<state, error>>
       ELSE IF result.success
       THEN state' = "COMPLETED" /\ error' = None
       ELSE /\ state' = "FAILED"
            /\ error' = IF result.error # None THEN result.error ELSE "Scraping failed"
    /\ pc' = "done"
    /\ UNCHANGED <<ranges, idx, pagination_token, saved_files, unsaved, all_posts_data,
                   result, requests, responses, sleeps, xVars, otherVars>>

Next == Setup \/ FetchRange \/ Finish \/ ReportStatus

Spec == Init /\ [][Next]_vars

\* ------------------------------------------------------------- SpecExtract
\* The pages the extraction is applied to.  An Update entity takes every
\* combination of a missing, empty or present text with a missing or present
\* shareUrl, and every way one of commentary, socialContent, actor, the
\* video reference and the images can be null, missing or unresolvable; an
\* entity of another type may carry streams.  The entities of one normalized
\* response have distinct identifiers; one entity may have none (0).  The
\* universe lists 'included' by ascending identifier: C5_OrderPreserved
\* applies the extraction to every other order of it.
XStreamLists == {<<>>, <<Stream(640, 360, "v640")>>}
XImageLists == {<<Image("root", <<Artifact(100, "seg")>>)>>}

XUpdates(u) ==
    {Entity(UpdateType, u, c, s, "profile", Absent, 0, <<>>, <<>>) :
        c \in {Absent, "empty", "text"}, s \in {Absent, "url"}}
    \cup {Entity(UpdateType, u, Null, "url", "profile", Absent, 0, <<>>, <<>>),
          Entity(UpdateType, u, "text", Null, "profile", Absent, 0, <<>>, <<>>),
          Entity(UpdateType, u, "text", Absent, "profile", Null, 0, <<>>, <<>>)}
    \cup {Entity(UpdateType, u, "text", Absent, a, Absent, 0, <<>>, <<>>) :
        a \in {Absent, Null, "noimage"}}
    \cup {Entity(UpdateType, u, "text", Absent, "profile", "video", r, <<>>, <<>>) :
        r \in 1..MaxUrn}
    \cup {Entity(UpdateType, u, "text", Absent, "profile", "images", 0, im, <<>>) :
        im \in XImageLists}

XOthers(u) ==
    {Entity(VideoMetadataType, u, Absent, Absent, Absent, Absent, 0, <<>>, ps) :
        ps \in XStreamLists}

\* The entities of identifier u (0: an Update without entityUrn).
XEntities(u) ==
    IF u = 0
    THEN {Entity(UpdateType, 0, "text", Absent, "profile", Absent, 0, <<>>, <<>>)}
    ELSE XUpdates(u) \cup XOthers(u)

RECURSIVE XIncludedFrom(_, _)
\* The 'included' lists of at most n entities whose identifiers ascend from u.
XIncludedFrom(u, n) ==
    IF n = 0 THEN {<<>>}
    ELSE {<<>>} \cup
         UNION {{<<x>> \o rest : x \in XEntities(v), rest \in XIncludedFrom(v + 1, n - 1)} :
                v \in u..MaxUrn}

XIncluded == XIncludedFrom(0, MaxIncluded)

XElements == SeqsUpTo(1..MaxUrn, MaxRefs)

InitExtract ==
    /\ pc = "off"
    /\ ranges = <<>>
    /\ idx = 0
    /\ pagination_token = None
    /\ saved_files = <<>>
    /\ unsaved = {}
    /\ all_posts_data = <<>>
    /\ result = Result(FALSE, None, "not returned")
    /\ requests = <<>>
    /\ responses = <<>>
    /\ sleeps = <<>>
    /\ state = "IDLE"
    /\ error = None
    /\ xpc = "input"
    /\ \E e \in XElements, inc \in XIncluded : xpage = Page(e, inc, Absent)
    /\ xposts = <<>>
    /\ CallOff /\ StatusOff /\ DownloadOff /\ AddOff

\* One call of extract_posts_from_response.
Extract ==
    /\ xpc = "input"
    /\ xposts' = extract_posts_from_response(xpage)
    /\ xpc' = "extracted"
    /\ UNCHANGED <<xpage, runVars, otherVars>>

NextExtract == Extract

SpecExtract == InitExtract /\ [][NextExtract]_vars

\* -------------------------------------------------------------- SpecRanges
\* No run, no extraction: the worker and the extraction are not started.
RunOff ==
    /\ pc = "off"
    /\ ranges = <<>>
    /\ idx = 0
    /\ pagination_token = None
    /\ saved_files = <<>>
    /\ unsaved = {}
    /\ all_posts_data = <<>>
    /\ result = Result(FALSE, None, "not returned")
    /\ requests = <<>>
    /\ responses = <<>>
    /\ sleeps = <<>>
    /\ state = "IDLE"
    /\ error = None

ExtractOff == xpc = "off" /\ xpage = Page(<<>>, <<>>, Absent) /\ xposts = <<>>

\* The inputs of parse_ranges: 'T', 'a-T', and inputs whose last part is not
\* a number.
RangeParts == {Part(n) : n \in 0..MaxTarget} \cup {BadPart}

RangeInputs ==
    {<<t>> : t \in RangeParts} \cup {<<a, t>> : a \in RangeParts, t \in RangeParts}

InitRanges ==
    /\ RunOff /\ ExtractOff /\ StatusOff /\ DownloadOff /\ AddOff
    /\ fpc = "called"
    /\ fargs \in {[ranges_input |-> i, increment |-> Increment] : i \in RangeInputs}
    /\ fret = <<>>

\* One call of parse_ranges.
ParseRanges ==
    /\ fpc = "called"
    /\ fret' = parse_ranges_input(fargs.ranges_input, fargs.increment)
    /\ fpc' = "returned"
    /\ UNCHANGED <<fargs, runVars, xVars, sVars, dVars, addVars>>

NextRanges == ParseRanges

SpecRanges == InitRanges /\ [][NextRanges]_vars

\* --------------------------------------------------------------- SpecVideo
\* The streams of a VideoPlayMetadata entity: below, at and above the two
\* preferred resolutions, by width or by height, with or without a url.
VStreams ==
    {Stream(360, 200, "u360"), Stream(640, 360, "u640"), Stream(360, 640, "uh640"),
     Stream(1280, 720, "uh720"), Stream(720, 400, "u720"),
     Stream(640, 360, ""), Stream(480, 270, "")}

VStreamLists == SeqsUpTo(VStreams, MaxStreams)

\* The post refers to the metadata entity 1, to no entity, or has a null
\* content.
VItems ==
    {Entity(UpdateType, MaxUrn + 1, "text", Absent, "profile", k, r, <<>>, <<>>) :
        k \in {"video"}, r \in {0, 1}}
    \cup {Entity(UpdateType, MaxUrn + 1, "text", Absent, "profile", Null, 1, <<>>, <<>>)}

\* 'included' holds no entity, or one metadata entity (of the identifier
\* referred to, or of another).
VIncluded ==
    {<<>>} \cup
    {<<Entity(VideoMetadataType, u, Absent, Absent, Absent, Absent, 0, <<>>, ps)>> :
        u \in 1..2, ps \in VStreamLists}

InitVideo ==
    /\ RunOff /\ ExtractOff /\ StatusOff /\ DownloadOff /\ AddOff
    /\ fpc = "called"
    /\ fargs \in [item : VItems, included : VIncluded, prefer_640p : BOOLEAN]
    /\ fret = <<>>

\* One call of extract_video_url.
ExtractVideo ==
    /\ fpc = "called"
    /\ fret' = extract_video_url(fargs.item, fargs.included, fargs.prefer_640p)
    /\ fpc' = "returned"
    /\ UNCHANGED <<fargs, runVars, xVars, sVars, dVars, addVars>>

NextVideo == ExtractVideo

SpecVideo == InitVideo /\ [][NextVideo]_vars

\* -------------------------------------------------------------- SpecImages
\* The artifacts of a vectorImage: three widths, two artifacts of the largest
\* width with different path segments, one of the largest width without one.
IArtifacts ==
    {Artifact(320, "s320"), Artifact(640, "s640"), Artifact(720, "s720"),
     Artifact(720, "s720b"), Artifact(720, "")}

IArtifactLists == SeqsUpTo(IArtifacts, MaxArtifacts)

\* The images of the post: one image of any artifact list, alone or followed
\* by a second image of at most one artifact or without rootUrl.
IImageLists ==
    {<<Image("root", a)>> : a \in IArtifactLists}
    \cup {<<Image("root", a), Image(r, b)>> :
            a \in IArtifactLists, r \in {"", "root2"}, b \in SeqsUpTo(IArtifacts, 1)}

IItems ==
    {Entity(UpdateType, 1, "text", Absent, "profile", "images", 0, im, <<>>) :
        im \in IImageLists}

InitImages ==
    /\ RunOff /\ ExtractOff /\ StatusOff /\ DownloadOff /\ AddOff
    /\ fpc = "called"
    /\ fargs \in [item : IItems]
    /\ fret = <<>>

\* One call of extract_image_urls.
ExtractImages ==
    /\ fpc = "called"
    /\ fret' = extract_image_urls(fargs.item)
    /\ fpc' = "returned"
    /\ UNCHANGED <<fargs, runVars, xVars, sVars, dVars, addVars>>

NextImages == ExtractImages

SpecImages == InitImages /\ [][NextImages]_vars

\* -------------------------------------------------------------- SpecStatus
\* ScrapingStatusManager with its monitor thread, the request handlers
\* add_user and refresh_all_users and the worker threads they start.  Time
\* is counted in ticks; the clock stops at MaxTime, which leaves room for a
\* run to exceed the bound and for a tick after that.
MaxTime == TIMEOUT_SECONDS + 2

\* user_manager.get_all_users(), by name.
AllUsers == [i \in 1..MaxUsers |-> i]

otherThanStatus == <<scrapeVars, xVars, fVars, dVars, addVars>>

\* (datetime.now() - self._started_at).total_seconds()
Elapsed == now - started_at

\* The test of start_scraping that raises ValueError.
StillActive == state = "RUNNING" /\ started_at # NoTime /\ Elapsed <= TIMEOUT_SECONDS

\* Variant: a RUNNING status is never given up, however old.
StartRejectedAlways(username, n) ==
    /\ state = "RUNNING"
    /\ start_result' = "rejected"
    /\ UNCHANGED <<state, error, now, started_at, current_user,
                   total_users, completed_users, progress>>

\* start_scraping raises ValueError('Scraping already in progress').
StartRejected(username, n) ==
    /\ StillActive
    /\ start_result' = "rejected"
    /\ UNCHANGED <<state, error, now, started_at, current_user,
                   total_users, completed_users, progress>>

\* start_scraping goes through, after _reset_all_fields when the status was
\* RUNNING.
StartAccepted(username, n) ==
    /\ ~StillActive
    /\ start_result' = IF state = "RUNNING" THEN "reset" ELSE "accepted"
    /\ state' = "RUNNING"
    /\ current_user' = username
    /\ total_users' = n
    /\ completed_users' = 0
    /\ progress' = "Starting scrape"
    /\ error' = None
    /\ started_at' = now
    /\ UNCHANGED now

\* A worker thread: run_scraper (kind "add") or run_scraper_all (kind
\* "refresh"), the users it scrapes, the one it is at and its position.
Worker(kind, users) == [kind |-> kind, users |-> users, i |-> 1, at |-> "update"]

\* The handler add_user: start_scraping, then the thread run_scraper.
AddUser ==
    /\ \E username \in 1..MaxUsers :
          \/ StartRejected(username, 1) /\ UNCHANGED workers
          \/ /\ StartAccepted(username, 1)
             /\ Len(workers) < MaxWorkers
             /\ workers' = Append(workers, Worker("add", <<username>>))
    /\ UNCHANGED otherThanStatus

\* The handler refresh_all_users: start_scraping for the first user with
\* total_users = len(users), then the thread run_scraper_all.
RefreshAllUsers ==
    /\ \/ StartRejected(AllUsers[1], Len(AllUsers)) /\ UNCHANGED workers
       \/ /\ StartAccepted(AllUsers[1], Len(AllUsers))
          /\ Len(workers) < MaxWorkers
          /\ workers' = Append(workers, Worker("refresh", AllUsers))
    /\ UNCHANGED otherThanStatus

\* The worker w moves to position at (and to user i).
Moves(w, i, at) == workers' = [workers EXCEPT ![w].i = i, ![w].at = at]

\* A worker thread that has returned: its locals are gone.
Finished == [kind |-> "none", users |-> <<>>, i |-> 1, at |-> "done"]

\* Where a worker goes once it is through with user i: the next user of
\* run_scraper_all, or complete_scraping.
AfterUser(w) ==
    IF workers[w].i < Len(workers[w].users)
    THEN Moves(w, workers[w].i + 1, "update")
    ELSE Moves(w, workers[w].i, "complete")

\* update_progress(progress, current_user)
UpdateProgress(w) ==
    /\ workers[w].at = "update"
    /\ progress' = "Scraping"
    /\ current_user' = workers[w].users[workers[w].i]
    /\ Moves(w, workers[w].i, "scrape")
    /\ UNCHANGED <<state, error, now, started_at, total_users, completed_users,
                   start_result, otherThanStatus>>

\* run_scrape returns success: increment_completed()
IncrementCompleted(w) ==
    /\ workers[w].at = "scrape"
    /\ completed_users' = completed_users + 1
    /\ AfterUser(w)
    /\ UNCHANGED <<state, error, now, started_at, current_user, total_users,
                   progress, start_result, otherThanStatus>>

\* run_scrape returns failure to run_scraper_all, which prints it and goes
\* on.
SkipFailedUser(w) ==
    /\ workers[w].at = "scrape"
    /\ workers[w].kind = "refresh"
    /\ AfterUser(w)
    /\ UNCHANGED <<state, error, now, started_at, current_user, total_users,
                   completed_users, progress, start_result, otherThanStatus>>

\* complete_scraping(success_message)
CompleteScraping(w) ==
    /\ workers[w].at = "complete"
    /\ IF state = "RUNNING"
       THEN state' = "COMPLETED" /\ progress' = "Successfully scraped" /\ error' = None
       ELSE UNCHANGED <<state, progress, error>>
    /\ Moves(w, workers[w].i, "cleanup")
    /\ UNCHANGED <<now, started_at, current_user, total_users,
                   completed_users, start_result, otherThanStatus>>

\* run_scrape returns failure to run_scraper, or something raises:
\* fail_scraping(error_message)
FailScraping(w) ==
    /\ workers[w].at = "scrape"
    /\ IF state = "RUNNING"
       THEN state' = "FAILED" /\ progress' = "Failed" /\ error' = "Scraping failed"
       ELSE UNCHANGED <<state, progress, error>>
    /\ Moves(w, workers[w].i, "cleanup")
    /\ UNCHANGED <<now, started_at, current_user, total_users,
                   completed_users, start_result, otherThanStatus>>

\* Variant: ensure_cleanup marks every run that did not complete as failed.
EnsureCleanupUnlessCompleted(w) ==
    /\ workers[w].at = "cleanup"
    /\ IF state \in {"RUNNING", "TIMEOUT"}
       THEN /\ state' = "FAILED"
            /\ progress' = "Interrupted"
            /\ error' = "Scraping interrupted unexpectedly"
       ELSE UNCHANGED <<state, progress, error>>
    /\ workers' = [workers EXCEPT ![w] = Finished]
    /\ UNCHANGED <<now, started_at, current_user, total_users,
                   completed_users, start_result, otherThanStatus>>

\* ensure_cleanup(), in the worker's finally block
EnsureCleanup(w) ==
    /\ workers[w].at = "cleanup"
    /\ IF state = "RUNNING"
       THEN /\ state' = "FAILED"
            /\ progress' = "Interrupted"
            /\ error' = "Scraping interrupted unexpectedly"
       ELSE UNCHANGED <<state, progress, error>>
    /\ workers' = [workers EXCEPT ![w] = Finished]
    /\ UNCHANGED <<now, started_at, current_user, total_users,
                   completed_users, start_result, otherThanStatus>>

\* Variant: the monitor marks every status older than the bound.
MonitorAnyState ==
    /\ IF started_at # NoTime /\ Elapsed > TIMEOUT_SECONDS
       THEN /\ state' = "TIMEOUT"
            /\ error' = "Timeout - scraping took too long"
            /\ progress' = "Timeout after"
       ELSE UNCHANGED <<state, error, progress>>
    /\ UNCHANGED <<now, started_at, current_user, total_users,
                   completed_users, workers, start_result, otherThanStatus>>

\* One round of the monitor thread (the elapsed seconds it prints into
\* _error and _progress are left out).
Monitor ==
    /\ IF state = "RUNNING" /\ started_at # NoTime /\ Elapsed > TIMEOUT_SECONDS
       THEN /\ state' = "TIMEOUT"
            /\ error' = "Timeout - scraping took too long"
            /\ progress' = "Timeout after"
       ELSE UNCHANGED <<state, error, progress>>
    /\ UNCHANGED <<now, started_at, current_user, total_users,
                   completed_users, workers, start_result, otherThanStatus>>

\* The handler reset_scrape_status: reset(force), which raises ValueError
\* (and changes nothing) for a RUNNING status younger than the bound unless
\* forced, and otherwise _reset_all_fields.
Reset ==
    /\ \E force \in BOOLEAN :
          ~(~force /\ state = "RUNNING" /\ started_at # NoTime
                   /\ Elapsed < TIMEOUT_SECONDS)
    /\ state' = "IDLE"
    /\ progress' = ""
    /\ error' = None
    /\ current_user' = NoUser
    /\ total_users' = 0
    /\ completed_users' = 0
    /\ started_at' = NoTime
    /\ UNCHANGED <<now, workers, start_result, otherThanStatus>>

\* Variant: the clock stops one tick after a run has started.
TickStopsEarly ==
    /\ now < MaxTime
    /\ started_at = NoTime \/ Elapsed < 1
    /\ now' = now + 1
    /\ UNCHANGED <<state, error, started_at, current_user,
                   total_users, completed_users, progress, workers, start_result,
                   otherThanStatus>>

\* Time passes.
Tick ==
    /\ now < MaxTime
    /\ now' = now + 1
    /\ UNCHANGED <<state, error, started_at, current_user,
                   total_users, completed_users, progress, workers, start_result,
                   otherThanStatus>>

InitStatus ==
    RunOff /\ ExtractOff /\ CallOff /\ DownloadOff /\ StatusOff /\ AddOff

NextStatus ==
    \/ AddUser
    \/ RefreshAllUsers
    \/ \E w \in 1..Len(workers) :
          \/ UpdateProgress(w)
          \/ IncrementCompleted(w)
          \/ SkipFailedUser(w)
          \/ CompleteScraping(w)
          \/ FailScraping(w)
          \/ EnsureCleanup(w)
    \/ Monitor
    \/ Tick

SpecStatus == InitStatus /\ [][NextStatus]_vars

\* The monitor thread and the clock keep going.
SpecStatusFair == SpecStatus /\ WF_vars(Monitor) /\ WF_vars(Tick)

\* The status manager with the reset handler called as well, at any time.
NextStatusAll == NextStatus \/ Reset

SpecStatusAll == InitStatus /\ [][NextStatusAll]_vars

\* ------------------------------------------------------------ SpecDownload
\* download_image and download_video: 'max_retries: int = 3'.
DefaultMaxRetries == 3

\* time.sleep(1) in download_image, time.sleep(2) in download_video.
Backoff(fn) == IF fn = "download_image" THEN 1 ELSE 2

\* What one attempt can come to: status 200 and the file written; another
\* status; requests.get raises; writing the file raises.
AttemptOutcomes == {"ok", "status", "get raises", "write raises"}

\* Variant: 'if attempt < max_retries' - the backoff also follows the last
\* attempt.
ShouldWaitAlways(attempt, max_retries) == attempt < max_retries

\* 'if attempt < max_retries - 1'
ShouldWait(attempt, max_retries) == attempt < max_retries - 1

InitDownload ==
    /\ RunOff /\ ExtractOff /\ CallOff /\ StatusOff /\ AddOff
    /\ dpc = "loop"
    /\ dargs \in [fn : {"download_image", "download_video"},
                  max_retries : 0..DefaultMaxRetries]
    /\ attempts = <<>>
    /\ waits = <<>>
    /\ dret = FALSE

\* One round of 'for attempt in range(max_retries)', or the 'return False'
\* that follows the loop.
DownloadAttempt ==
    /\ dpc = "loop"
    /\ LET attempt == Len(attempts)
       IN  IF attempt >= dargs.max_retries
           THEN /\ dret' = FALSE
                /\ dpc' = "returned"
                /\ UNCHANGED <<attempts, waits>>
           ELSE \E outcome \in AttemptOutcomes :
                /\ attempts' = Append(attempts, outcome)
                /\ IF outcome = "ok"
                   THEN dret' = TRUE /\ dpc' = "returned" /\ UNCHANGED waits
                   ELSE IF ShouldWait(attempt, dargs.max_retries)
                   THEN /\ waits' = Append(waits, [attempt |-> attempt,
                                                   seconds |-> Backoff(dargs.fn)])
                        /\ UNCHANGED <<dret, dpc>>
                   ELSE dret' = FALSE /\ dpc' = "returned" /\ UNCHANGED waits
    /\ UNCHANGED <<dargs, runVars, xVars, fVars, sVars, addVars>>

NextDownload == DownloadAttempt

SpecDownload == InitDownload /\ [][NextDownload]_vars

\* Every attempt comes to an end (requests.get has a timeout).
SpecDownloadFair == SpecDownload /\ WF_vars(DownloadAttempt)

\* --------------------------------------------------------------- SpecMedia
MaxMediaPosts == 2

\* A post of all_posts_data as download_media_for_posts reads it: post_text
\* is empty or not, image_urls holds no or two urls, video_url_640p is empty
\* or not.
MediaPost(text, images, video) == [text |-> text, images |-> images, video |-> video]

MediaPosts == {MediaPost(t, n, v) : t \in BOOLEAN, n \in {0, 2}, v \in BOOLEAN}

Asset(post_number, kind, n) == [post |-> post_number, kind |-> kind, n |-> n]

\* What the body of 'for post in all_posts_data' goes through for one post:
\* the text, then each image, then the video.
AssetsOfPost(post, post_number) ==
    (IF post.text THEN <<Asset(post_number, "text", 0)>> ELSE <<>>)
    \o [k \in 1..post.images |-> Asset(post_number, "image", k)]
    \o (IF post.video THEN <<Asset(post_number, "video", 0)>> ELSE <<>>)

RECURSIVE AssetsFrom(_, _)
AssetsFrom(posts, i) ==
    IF i > Len(posts) THEN <<>>
    ELSE AssetsOfPost(posts[i], i) \o AssetsFrom(posts, i + 1)

\* post_order is the position of the post in all_posts_data.
Assets(posts) == AssetsFrom(posts, 1)

\* What saving or downloading one asset can come to. save_post_text returns
\* True or False. download_image and download_video return True or False
\* (they catch what their retry loop raises), or raise: their headers are
\* built from self.page.evaluate("navigator.userAgent") before the loop,
\* outside every try of theirs.
AssetOutcomes(kind) ==
    IF kind = "text" THEN {"ok", "failed"} ELSE {"ok", "failed", "raises"}

\* The counter of 'stats' that an outcome of an asset adds to.
StatKey(kind, outcome) ==
    IF kind = "text" THEN (IF outcome = "ok" THEN "text_saved" ELSE "text_failed")
    ELSE IF kind = "image"
    THEN (IF outcome = "ok" THEN "images_downloaded" ELSE "images_failed")
    ELSE (IF outcome = "ok" THEN "videos_downloaded" ELSE "videos_failed")

InitMedia ==
    /\ RunOff /\ ExtractOff /\ CallOff /\ StatusOff /\ DownloadOff /\ FeedOff /\ ParserOff
    /\ mpc = "loop"
    /\ mposts \in SeqsUpTo(MediaPosts, MaxMediaPosts)
    /\ mlog = <<>>
    /\ stats = NoStats

\* download_media_for_posts handles its next asset, or prints the summary
\* when none is left. An exception that leaves a download is caught by the
\* 'except Exception' around the whole function, which prints it and returns.
MediaStep ==
    /\ mpc = "loop"
    /\ LET assets == Assets(mposts)
           k == Len(mlog) + 1
       IN  IF k > Len(assets)
           THEN mpc' = "returned" /\ UNCHANGED <<mlog, stats>>
           ELSE \E outcome \in AssetOutcomes(assets[k].kind) :
                /\ mlog' = Append(mlog, assets[k])
                /\ IF outcome = "raises"
                   THEN mpc' = "aborted" /\ UNCHANGED stats
                   ELSE /\ stats' = [stats EXCEPT ![StatKey(assets[k].kind, outcome)] = @ + 1]
                        /\ UNCHANGED mpc
    /\ UNCHANGED <<mposts, runVars, xVars, fVars, sVars, dVars, aVars, pVars>>

NextMedia == MediaStep

SpecMedia == InitMedia /\ [][NextMedia]_vars

\* ---------------------------------------------------------------- SpecFeed
MaxFeedUsers == 2
MaxFeedPosts == 2

\* user_manager.get_all_users(): the tracked users, each username once.
TrackedUsers == 1..MaxFeedUsers

\* A username that is not tracked.
Untracked == MaxFeedUsers + 1

\* filter_username is None (or empty): 'if filter_username' is false.
NoFilter == 0

\* session_data['posts'] of a user: his posts in stored order.
StoredPosts(user, n) == [k \in 1..n |-> [user |-> user, k |-> k]]

\* 'users' once the filter is applied.
SelectedUsers(filter_username) ==
    IF filter_username # NoFilter
    THEN {u \in TrackedUsers : u = filter_username}
    ELSE TrackedUsers

\* user_posts_map: the selected users whose session data has posts.
user_posts_map(args) ==
    [u \in {v \in SelectedUsers(args.filter_username) : args.counts[v] > 0}
        |-> StoredPosts(u, args.counts[u])]

\* Variant: a user counts as available while a post remains after his next.
available_users_short(map, indices) ==
    {u \in DOMAIN map : indices[u] + 1 < Len(map[u])}

\* 'available_users': the users who still have posts (indices are 0-based).
available_users(map, indices) ==
    {u \in DOMAIN map : indices[u] < Len(map[u])}

InitFeed ==
    /\ RunOff /\ ExtractOff /\ CallOff /\ StatusOff /\ DownloadOff /\ MediaOff /\ ParserOff
    /\ apc = "loop"
    /\ aargs \in [counts : [TrackedUsers -> 0..MaxFeedPosts],
                  filter_username : {NoFilter, Untracked} \cup TrackedUsers]
    /\ user_indices = [u \in DOMAIN user_posts_map(aargs) |-> 0]
    /\ interleaved_posts = <<>>

\* One round of the while loop: random.choice among the available users,
\* whose next post is appended; or the return when nobody is available.
FeedStep ==
    /\ apc = "loop"
    /\ LET map == user_posts_map(aargs)
           available == available_users(map, user_indices)
       IN  IF available = {}
           THEN apc' = "returned" /\ UNCHANGED <<user_indices, interleaved_posts>>
           ELSE \E selected_user \in available :
                LET post_index == user_indices[selected_user]
                IN  /\ interleaved_posts' =
                           Append(interleaved_posts, map[selected_user][post_index + 1])
                    /\ user_indices' = [user_indices EXCEPT ![selected_user] = @ + 1]
                    /\ UNCHANGED apc
    /\ UNCHANGED <<aargs, runVars, xVars, fVars, sVars, dVars, mVars, pVars>>

NextFeed == FeedStep

SpecFeed == InitFeed /\ [][NextFeed]_vars

\* random.choice returns: every round of the loop comes to an end.
SpecFeedFair == SpecFeed /\ WF_vars(FeedStep)

\* ------------------------------------------------------------ SpecIdentity
\* The test parsers (linkedin_parser_enhanced.py, linkedin_url_extract.py.py).
\* A urn is the sequence of its parts between colons: "urn:li:activity:1"
\* is <<"urn", "li", "activity", "1">>; the empty string is <<>>.
MaxUrnParts == 3

UrnParts == {"li", "activity", "1", "2"}

\* The positions where ':activity:' occurs: a part "activity" with a colon on
\* both sides.
ActivityAt(urn) == {i \in 2..(Len(urn) - 1) : urn[i] = "activity"}

\* "':activity:' in urn"
HasActivity(urn) == ActivityAt(urn) # {}

\* "urn.split(':activity:')[-1]": what follows the last of the occurrences,
\* which split finds from the left without overlap.
RECURSIVE AfterActivity(_)
AfterActivity(urn) ==
    IF ~HasActivity(urn) THEN urn
    ELSE LET i == CHOOSE h \in ActivityAt(urn) : \A g \in ActivityAt(urn) : h <= g
         IN  AfterActivity(SubSeq(urn, i + 1, Len(urn)))

\* "urn.split(':')[-1]"
LastPart(urn) == <<urn[Len(urn)]>>

\* The fields of an Update entity that the identity and the dedup read;
\* text_len is the length of the stripped text the parser finds for it.
PostData(entityUrn, activityUrn, updateUrn, postUrn, author, commentary, text_len) ==
    [entityUrn |-> entityUrn, activityUrn |-> activityUrn, updateUrn |-> updateUrn,
     postUrn |-> postUrn, author |-> author, timestamp |-> "{}",
     commentary |-> commentary, text_len |-> text_len]

\* The first of activityUrn, updateUrn, postUrn that is not empty and holds
\* ':activity:', or <<>>.
OtherActivityUrn(post_data) ==
    LET fields == <<post_data.activityUrn, post_data.updateUrn, post_data.postUrn>>
        hits == {k \in 1..Len(fields) : fields[k] # <<>> /\ HasActivity(fields[k])}
    IN  IF hits = {} THEN <<>>
        ELSE fields[CHOOSE k \in hits : \A j \in hits : k <= j]

\* str(hash(key_content)) of the text made of author, timestamp and
\* commentary: the same text gives the same value within a process.
FallbackId(post_data) ==
    <<"hash", post_data.author, post_data.timestamp, post_data.commentary>>

\* _extract_post_id
extract_post_id(post_data) ==
    IF post_data.entityUrn # <<>>
    THEN IF HasActivity(post_data.entityUrn)
         THEN AfterActivity(post_data.entityUrn)
         ELSE LastPart(post_data.entityUrn)
    ELSE IF OtherActivityUrn(post_data) # <<>>
    THEN AfterActivity(OtherActivityUrn(post_data))
    ELSE FallbackId(post_data)

\* len(post_text.strip()) > 10
MinTextLen == 10

MeaningfulText(text_len) == text_len > MinTextLen

IdUrns == SeqsUpTo(UrnParts, MaxUrnParts)

\* Entities with an entityUrn, and entities without one that have another
\* urn field or none.
IdEntities ==
    {PostData(u, <<>>, <<>>, <<>>, "{}", "{}", 0) : u \in IdUrns \ {<<>>}}
    \cup {PostData(<<>>, a, <<>>, p, "{}", c, 0) :
             a \in {<<>>, <<"li", "1">>},
             p \in {<<>>, <<"li", "activity", "1">>},
             c \in {"{}", "c"}}

InitIdentity ==
    /\ RunOff /\ ExtractOff /\ StatusOff /\ DownloadOff /\ AddOff
    /\ fpc = "called"
    /\ fargs \in IdEntities \X IdEntities
    /\ fret = <<>>

\* _extract_post_id of two entities.
ExtractPostIds ==
    /\ fpc = "called"
    /\ fret' = <<extract_post_id(fargs[1]), extract_post_id(fargs[2])>>
    /\ fpc' = "returned"
    /\ UNCHANGED <<fargs, runVars, xVars, sVars, dVars, addVars>>

NextIdentity == ExtractPostIds

SpecIdentity == InitIdentity /\ [][NextIdentity]_vars

\* --------------------------------------------------------------- SpecDedup
MaxEntities == 3

\* The Update entities a page can hold: two urns of one identity, a urn of
\* another, each with a text long enough, too short or missing.
DedupUrns == {<<"li", "activity", "1">>, <<"li", "share", "1">>, <<"li", "activity", "2">>}

DedupEntities ==
    {PostData(u, <<>>, <<>>, <<>>, "{}", "{}", n) :
        u \in DedupUrns, n \in {0, MinTextLen + 1}}

\* parse_posts: seen_post_ids.clear() and an empty list.
InitDedup ==
    /\ RunOff /\ ExtractOff /\ CallOff /\ StatusOff /\ DownloadOff
    /\ MediaOff /\ FeedOff
    /\ pdata \in SeqsUpTo(DedupEntities, MaxEntities)
    /\ pidx = 0
    /\ seen_post_ids = {}
    /\ parsed_posts = <<>>

\* The recursive search comes to the next Update entity: _extract_post_info
\* (_parse_single_post_enhanced) looks the identity up, adds it to
\* seen_post_ids, assembles the post and returns it only with a meaningful
\* text; the search appends what is returned.
ParsePost ==
    /\ pidx < Len(pdata)
    /\ pidx' = pidx + 1
    /\ LET post_data == pdata[pidx + 1]
           post_id == extract_post_id(post_data)
       IN  IF post_id \in seen_post_ids
           THEN UNCHANGED <<seen_post_ids, parsed_posts>>
           ELSE /\ seen_post_ids' = seen_post_ids \cup {post_id}
                /\ parsed_posts' =
                       IF MeaningfulText(post_data.text_len)
                       THEN Append(parsed_posts, [post_id |-> post_id, at |-> pidx + 1])
                       ELSE parsed_posts
    /\ UNCHANGED <<pdata, runVars, xVars, fVars, sVars, dVars, mVars, aVars>>

NextDedup == ParsePost

SpecDedup == InitDedup /\ [][NextDedup]_vars

\* ================================================================= claims
\* The run has returned from run_scrape.
Returned == pc \in {"report", "done"}

\* The k-th call of fetch_profile_activity returned a page.
Fetched(k) == k \in 1..Len(responses) /\ responses[k] # FetchFailed

\* The k-th response is a page without a usable continuation token.
NoToken(k) == Fetched(k) /\ responses[k].token \in {Absent, ""}

\* The entity_urn of each post of a list, in order.
IdsOf(posts) == [k \in 1..Len(posts) |-> posts[k].entity_urn]

\* The post_order of each post of a list, in order.
NumbersOf(posts) == [k \in 1..Len(posts) |-> posts[k].post_order]

\* C1: the first fetch of a run carries no continuation token, and fetch
\* k > 1 carries exactly the token of the response to fetch k-1, which is a
\* real token.
C1_TokenChain ==
    \A k \in 1..Len(requests) :
        IF k = 1 THEN requests[k].pagination_token = None
        ELSE /\ Fetched(k - 1)
             /\ responses[k - 1].token \in Tokens
             /\ requests[k].pagination_token = responses[k - 1].token

\* Three fetches, the third with another token than the second.
C1_Witness ==
    /\ Len(requests) = 3
    /\ requests[2].pagination_token # requests[3].pagination_token

\* C2: once a page that is not the last requested range came without a
\* continuation token (absent or empty), no further fetch is issued, the
\* saved pages stay as they are, and the run returns success without an
\* error; the web status ends COMPLETED.
C2_TokenHaltSucceeds ==
    /\ [](\A k \in 1..Len(responses) :
            (NoToken(k) /\ k < Len(ranges)) =>
                /\ Len(requests) = k
                /\ pc # "fetch"
                /\ Returned => (result.success /\ result.error = None)
                /\ pc = "done" => state = "COMPLETED")
    /\ [][(pc # "fetch" /\ pc # "start") => saved_files' = saved_files]_vars

\* A run of three ranges halted by the token-less first page, with that page
\* kept and success reported.
C2_Witness ==
    /\ pc = "done"
    /\ Len(ranges) = 3
    /\ NoToken(1)
    /\ Len(saved_files) = 1
    /\ result.success

C4_FailureReported ==
    (pc = "done" /\ Len(ranges) = 3 /\ Len(responses) = 2 /\ ~Fetched(2)) =>
        /\ ~result.success
        /\ result.error # None
        /\ state = "FAILED"
        /\ IdsOf(all_posts_data) =
              Concat([i \in 1..Len(saved_files) |->
                  IdsOf(extract_posts_from_response(saved_files[i].data))])

\* The run and the extraction of single pages, side by side.
InitOrder == Init \/ InitExtract

NextOrder == Next \/ NextExtract

SpecOrder == InitOrder /\ [][NextOrder]_vars

\* The indices of the Update entities of a page that reference ref of the page names.
Referenced(page, ref) ==
    {i \in 1..Len(page.included) :
        /\ page.included[i].type = UpdateType
        /\ page.included[i].entityUrn = page.elements[ref]}

\* Reference ref of the page names an Update entity with text or a shareUrl.
Accepted(page, ref) ==
    \E i \in Referenced(page, ref) :
        page.included[i].commentary = "text" \/ page.included[i].socialContent = "url"

\* The positions of '*elements' that are accepted, ascending.
AcceptedPositions(page) ==
    SelectSeq([i \in 1..Len(page.elements) |-> i], LAMBDA i : Accepted(page, i))

\* The accepted references of a page, in the order of '*elements'.
AcceptedRefs(page) ==
    LET pos == AcceptedPositions(page) IN [k \in 1..Len(pos) |-> page.elements[pos[k]]]

\* The extraction emitted a post for position ref of '*elements'.
Emitted(ref) == \E k \in 1..Len(xposts) : xposts[k].post_order = ref

Perms(n) == {f \in [1..n -> 1..n] : \A i, j \in 1..n : i # j => f[i] # f[j]}

AllFull ==
    /\ Len(saved_files) = Len(ranges)
    /\ \A i \in 1..Len(saved_files) :
          /\ saved_files[i].range = ranges[i]
          /\ ranges[i][2] - ranges[i][1] = Increment
          /\ Len(saved_files[i].data.elements) = Increment
          /\ Len(AcceptedPositions(saved_files[i].data)) = Increment

\* C6: the number of an emitted post is the start of its page's range plus
\* the 1-based position of its reference in the page; when every range is
\* full and yields as many posts as it asked for, the numbers of the run
\* are 1, 2, ..., without gap or repeat.
C6_GlobalNumbering ==
    Returned =>
        /\ NumbersOf(all_posts_data) =
              Concat([i \in 1..Len(saved_files) |->
                  LET pos == AcceptedPositions(saved_files[i].data)
                  IN  [k \in 1..Len(pos) |-> saved_files[i].range[1] + pos[k]]])
        /\ AllFull =>
              NumbersOf(all_posts_data) = [k \in 1..(Len(ranges) * Increment) |-> k]

\* Three full ranges, each yielding Increment posts.
C6_Witness ==
    /\ pc = "done"
    /\ Len(ranges) = 3
    /\ AllFull
    /\ Len(all_posts_data) = 3 * Increment

\* C7: no two posts of the accumulated result of a run have the same
\* identity.
C7_NoDuplicateIdentity ==
    \A a, b \in 1..Len(all_posts_data) :
        a # b => all_posts_data[a].entity_urn # all_posts_data[b].entity_urn

\* C8: a referenced post entity is emitted exactly when its text or its
\* shareUrl is non-empty.
C8_EmittedIffContent ==
    xpc = "extracted" =>
        \A ref \in 1..Len(xpage.elements) :
            Referenced(xpage, ref) # {} => (Emitted(ref) <=> Accepted(xpage, ref))

\* The references of a page that name an Update entity, ascending.
HitPositions(page) ==
    SelectSeq([i \in 1..Len(page.elements) |-> i],
              LAMBDA i : Referenced(page, i) # {})

\* C9: post_lookup holds Update entities only, and a reference that is not
\* in it is skipped alone: the page yields the posts it yields without the
\* missing references, each at its own position.
C9_MissingReferenceSkipped ==
    xpc = "extracted" =>
        /\ \A u \in 0..MaxUrn :
              LET i == post_lookup(xpage.included, u)
              IN  i # 0 => xpage.included[i].type = UpdateType
        /\ LET hits == HitPositions(xpage)
               others == extract_posts_from_response(
                             Page([k \in 1..Len(hits) |-> xpage.elements[hits[k]]],
                                  xpage.included, xpage.token))
           IN  xposts = [k \in 1..Len(others) |->
                            [others[k] EXCEPT !.post_order = hits[others[k].post_order]]]

\* The first reference names no Update entity, the second one is emitted.
C9_Witness ==
    /\ xpc = "extracted"
    /\ Len(xpage.elements) = 2
    /\ Referenced(xpage, 1) = {}
    /\ \E i \in 1..Len(xpage.included) : xpage.included[i].entityUrn = xpage.elements[1]
    /\ Emitted(2)

\* C10: a referenced post entity with text is assembled whatever is absent,
\* null or unresolvable in its other fields or in the other entities of the
\* page, the affected field being left empty.
C10_FieldMissNotFatal ==
    xpc = "extracted" =>
        \A ref \in 1..Len(xpage.elements) :
            \A i \in Referenced(xpage, ref) :
                xpage.included[i].commentary = "text" =>
                    \E k \in 1..Len(xposts) :
                        /\ xposts[k].post_order = ref
                        /\ xposts[k].post_text = "text"
                        /\ xpage.included[i].socialContent # "url" => xposts[k].post_url = ""
                        /\ xpage.included[i].actor # "profile" =>
                              xposts[k].author_profile_urn = ""
                        /\ xpage.included[i].content # "video" =>
                              xposts[k].video_url_640p = ""

\* C11: when page N+1 is requested, the posts of page N have been assembled:
\* every post of the saved page of range k-1 is in the assembled list once
\* fetch k has been issued.
C11_DecodedBeforeNextFetch ==
    \A k \in 2..Len(requests) :
        \A i \in 1..Len(saved_files) :
            saved_files[i].range = ranges[k - 1] =>
                \A j \in 1..Len(PostsOfFile(saved_files[i])) :
                    \E a \in 1..Len(all_posts_data) :
                        all_posts_data[a] = PostsOfFile(saved_files[i])[j]

\* C12: the delay runs between successful fetches and not after the last
\* page fetched: when the loop has ended, every fetch but the first was
\* preceded by the delay of the page before it, and no delay followed the
\* last fetch.
C12_NoDelayAfterFinalPage ==
    pc # "fetch" =>
        /\ \A k \in 2..Len(requests) : \E i \in 1..Len(sleeps) : sleeps[i] = k - 1
        /\ \A i \in 1..Len(sleeps) : sleeps[i] < Len(requests)

\* 'Ranges fetched: {len(saved_files)}' of the final summary.
PagesCompleted == Len(saved_files)

\* The second page came without a token, more ranges remain, and the run
\* has returned.
HaltedAtSecondPage == Returned /\ Len(ranges) > 2 /\ Fetched(1) /\ NoToken(2)

\* C13 (as stated): when the second page's response lacks a token while more
\* ranges remain, the run succeeds with exactly one page completed.
C13_HaltCountsOnePage ==
    HaltedAtSecondPage => (result.success /\ PagesCompleted = 1)

\* C13 (amended): when the second page's response lacks a token while more
\* ranges remain, no third fetch is issued and the run succeeds without an
\* error; the second page itself counts: unless a page could not be written,
\* two pages are completed, the second being that response, and its posts
\* are returned.
C13_HaltCountsBothPages ==
    HaltedAtSecondPage =>
        /\ result.success /\ result.error = None
        /\ Len(requests) = 2
        /\ unsaved = {} =>
              /\ PagesCompleted = 2
              /\ saved_files[2] = save_activity_data(responses[2], ranges[2])
              /\ \A j \in 1..Len(PostsOfFile(saved_files[2])) :
                    \E a \in 1..Len(all_posts_data) :
                        all_posts_data[a] = PostsOfFile(saved_files[2])[j]

\* Three ranges, the second page without a token and with posts, both pages
\* saved.
C13_Witness ==
    /\ pc = "done"
    /\ Len(ranges) = 3
    /\ HaltedAtSecondPage
    /\ PagesCompleted = 2
    /\ PostsOfFile(saved_files[2]) # <<>>
    /\ result.success

\* C14: for a positive target T, given as 'T' or as 'a-T', parse_ranges
\* with the default increment returns ranges that start at 0, each beginning
\* where the one before ends, the last ending at T; every range but the last
\* has the size of the increment and the last has a size of 1 up to the
\* increment.
C14_RangesCoverTarget ==
    (fpc = "returned" /\ fargs.ranges_input[Len(fargs.ranges_input)].numeric
        /\ fargs.ranges_input[Len(fargs.ranges_input)].value > 0) =>
        LET T == fargs.ranges_input[Len(fargs.ranges_input)].value
            n == Len(fret)
        IN  /\ n >= 1
            /\ fret[1][1] = 0
            /\ fret[n][2] = T
            /\ \A i \in 1..(n - 1) :
                  /\ fret[i + 1][1] = fret[i][2]
                  /\ fret[i][2] - fret[i][1] = Increment
            /\ fret[n][2] - fret[n][1] \in 1..Increment

\* An input 'a-T' whose target is not a multiple of the increment: three
\* ranges, the last one cut short.
C14_Witness ==
    /\ fpc = "returned"
    /\ Len(fargs.ranges_input) = 2
    /\ fargs.ranges_input[2] = Part(2 * Increment + 1)
    /\ Len(fret) = 3
    /\ fret[3] = <<2 * Increment, 2 * Increment + 1>>

\* The streams of the entity the post's video reference names (the first
\* entity of that identifier), none when there is no such entity.
ReferredStreams ==
    LET hits == {i \in 1..Len(fargs.included) :
                    /\ fargs.item.content = "video"
                    /\ fargs.item.videoRef # 0
                    /\ fargs.included[i].entityUrn = fargs.item.videoRef}
    IN  IF hits = {} THEN <<>>
        ELSE fargs.included[CHOOSE i \in hits : \A j \in hits : i <= j].progressiveStreams

\* The positions of the referred streams that have a url and whose width or
\* height is res.
StreamsAt(res) ==
    {i \in 1..Len(ReferredStreams) :
        /\ ReferredStreams[i].url # ""
        /\ ReferredStreams[i].width = res \/ ReferredStreams[i].height = res}

StreamsWithUrl == {i \in 1..Len(ReferredStreams) : ReferredStreams[i].url # ""}

\* C15: with 640 preferred, extract_video_url returns the url of a stream of
\* width or height 640 if one (with a url) exists, otherwise of one of width
\* or height 720, otherwise of the first stream that has a url, and the
\* empty result when the metadata entity is absent or no stream has a url.
C15_VideoPreference ==
    (fpc = "returned" /\ fargs.prefer_640p) =>
        IF StreamsAt(PreferredRes) # {}
        THEN \E i \in StreamsAt(PreferredRes) : fret = ReferredStreams[i].url
        ELSE IF StreamsAt(SecondaryRes) # {}
        THEN \E i \in StreamsAt(SecondaryRes) : fret = ReferredStreams[i].url
        ELSE IF StreamsWithUrl # {}
        THEN fret = ReferredStreams[CHOOSE i \in StreamsWithUrl :
                                        \A j \in StreamsWithUrl : i <= j].url
        ELSE fret = ""

\* Streams of widths 360, 720 (by height) and 640 in this order: the url of
\* the width-640 stream is returned.
C15_Witness ==
    /\ fpc = "returned"
    /\ fargs.prefer_640p
    /\ ReferredStreams = <<Stream(360, 200, "u360"), Stream(1280, 720, "uh720"),
                           Stream(640, 360, "u640")>>
    /\ fret = "u640"

\* The url the claim gives an image: rootUrl followed by the path segment of
\* the first artifact of the largest width; none for an image without
\* rootUrl, without artifacts or whose chosen artifact has no segment.
ClaimedImageUrl(image) ==
    IF image.rootUrl = "" \/ image.artifacts = <<>> THEN <<>>
    ELSE LET arts == image.artifacts
             widest == {i \in 1..Len(arts) : \A j \in 1..Len(arts) : arts[j].width <= arts[i].width}
             first == CHOOSE i \in widest : \A j \in widest : i <= j
         IN  IF arts[first].fileIdentifyingUrlPathSegment = "" THEN <<>>
             ELSE << <<image.rootUrl, arts[first].fileIdentifyingUrlPathSegment>> >>

\* C16: for each image extract_image_urls takes the artifact of the largest
\* width, the first of them in list order, and returns rootUrl followed by
\* that artifact's path segment; the urls come in the order of the images.
C16_WidestArtifactFirst ==
    fpc = "returned" =>
        fret = Concat([k \in 1..Len(fargs.item.images) |->
                          ClaimedImageUrl(fargs.item.images[k])])

\* Artifacts of widths 320, 720, 720: the first of the two widest is taken.
C16_Witness ==
    /\ fpc = "returned"
    /\ Len(fargs.item.images) = 1
    /\ fargs.item.images[1].artifacts =
          <<Artifact(320, "s320"), Artifact(720, "s720"), Artifact(720, "s720b")>>
    /\ fret = << <<"root", "s720">> >>

\* The status fields other than _state.
StatusFields ==
    <<error, started_at, current_user, total_users, completed_users, progress>>

\* A step that is a call of start_scraping: the outcome of the last call
\* changes or a worker thread is added.
StartCalled == start_result' # start_result \/ Len(workers') > Len(workers)

\* C17: a call of start_scraping while the state is RUNNING and the run has
\* not exceeded the bound is rejected and changes no status field and
\* starts no worker; every other call is accepted and leaves the new run as
\* the one RUNNING run, started now with no user completed, after a reset
\* when the state was RUNNING (the old run had exceeded the bound).
C17_SingleRunning ==
    [][StartCalled =>
         IF state = "RUNNING" /\ now - started_at <= TIMEOUT_SECONDS
         THEN /\ start_result' = "rejected"
              /\ UNCHANGED <<state, StatusFields, workers>>
         ELSE /\ start_result' = (IF state = "RUNNING" THEN "reset" ELSE "accepted")
              /\ state' = "RUNNING"
              /\ started_at' = now
              /\ completed_users' = 0
              /\ error' = None
              /\ Len(workers') = Len(workers) + 1]_vars

\* A run was force-reset while its worker was still scraping; the new run is
\* RUNNING.
C17_Witness ==
    /\ start_result = "reset"
    /\ state = "RUNNING"
    /\ started_at = now
    /\ Len(workers) = 2
    /\ workers[1].at = "scrape"

\* C18: a round of the monitor turns a RUNNING run whose elapsed time exceeds
\* the bound into TIMEOUT and changes nothing in any other case; and the
\* state becomes TIMEOUT in no other way.
C18_MonitorOnlyTimesOut ==
    /\ [][Monitor =>
            IF state = "RUNNING" /\ now - started_at > TIMEOUT_SECONDS
            THEN state' = "TIMEOUT" /\ UNCHANGED <<started_at, workers>>
            ELSE UNCHANGED <<state, StatusFields, workers>>]_vars
    /\ [][(state' = "TIMEOUT" /\ state # "TIMEOUT") =>
            (state = "RUNNING" /\ now - started_at > TIMEOUT_SECONDS)]_vars

\* The monitor has timed out the only run, whose worker is still scraping.
C18_Witness ==
    /\ state = "TIMEOUT"
    /\ Len(workers) = 1
    /\ workers[1].at = "scrape"
    /\ now - started_at > TIMEOUT_SECONDS

C20_BoundedRetries ==
    /\ [](/\ Len(attempts) <= dargs.max_retries
          /\ \A a \in 1..(Len(attempts) - 1) : attempts[a] # "ok"
          /\ LET failed == {a \in 1..Len(attempts) : attempts[a] # "ok"}
             IN  waits = [k \in 1..Len(waits) |->
                             [attempt |-> k - 1, seconds |-> Backoff(dargs.fn)]]
                 /\ \A a \in failed : (a <= Len(waits)) <=> (a < dargs.max_retries)
                 /\ Len(waits) <= Len(attempts)
          /\ dpc = "returned" =>
                /\ dret <=> (attempts # <<>> /\ attempts[Len(attempts)] = "ok")
                /\ ~dret => Len(attempts) = dargs.max_retries
                /\ attempts # <<>> => Len(waits) = Len(attempts) - 1)
    /\ <>(dpc = "returned")

\* Three failed attempts of download_video with two backoffs in between.
C20_Witness ==
    /\ dpc = "returned"
    /\ dargs = [fn |-> "download_video", max_retries |-> DefaultMaxRetries]
    /\ Len(attempts) = DefaultMaxRetries
    /\ Len(waits) = DefaultMaxRetries - 1
    /\ dret = FALSE

\* The assets download_media_for_posts has counted in 'stats'.
Counted ==
    stats.text_saved + stats.text_failed + stats.images_downloaded
    + stats.images_failed + stats.videos_downloaded + stats.videos_failed

\* C21: the failure of one asset's download never aborts the others: once
\* download_media_for_posts is over, every text, image and video of every
\* post has been attempted, and each of them is counted in the statistics.
C21_FailureNeverAborts ==
    mpc \in {"returned", "aborted"} =>
        /\ mlog = Assets(mposts)
        /\ Counted = Len(mlog)

\* 'total_posts' of the feed aggregate_feed returns.
total_posts == Len(interleaved_posts)

RECURSIVE SumCounts(_, _)
SumCounts(counts, users) ==
    IF users = {} THEN 0
    ELSE LET u == CHOOSE v \in users : TRUE
         IN  counts[u] + SumCounts(counts, users \ {u})

\* The positions of the feed that hold posts of user u, in feed order.
FeedOfUser(u) ==
    SelectSeq(interleaved_posts, LAMBDA post : post.user = u)

\* C22: aggregate_feed always returns, and the feed it returns holds every
\* post of every selected user exactly once (total_posts is the sum of the
\* users' post counts), the posts of each user in their stored order.
C22_FeedInterleaves ==
    /\ <>(apc = "returned")
    /\ [](apc = "returned" =>
            /\ total_posts = SumCounts(aargs.counts, SelectedUsers(aargs.filter_username))
            /\ \A u \in SelectedUsers(aargs.filter_username) :
                   FeedOfUser(u) = StoredPosts(u, aargs.counts[u]))

\* Two users with all their posts in a returned feed that changes user at
\* every post.
C22_Witness ==
    /\ apc = "returned"
    /\ aargs.filter_username = NoFilter
    /\ \A u \in TrackedUsers : aargs.counts[u] = MaxFeedPosts
    /\ \A k \in 1..(Len(interleaved_posts) - 1) :
           interleaved_posts[k].user # interleaved_posts[k + 1].user

\* The identities of the posts appended so far.
AppendedIds == {parsed_posts[k].post_id : k \in 1..Len(parsed_posts)}

\* C23: an identity is looked up in the seen set before its post is appended
\* (no identity is appended twice) and is marked seen only when its post was
\* appended: the seen set holds the appended identities and no identity of
\* an entity that was skipped.
C23_MarkedOnlyWhenAppended ==
    /\ \A j, k \in 1..Len(parsed_posts) :
           parsed_posts[j].post_id = parsed_posts[k].post_id => j = k
    /\ seen_post_ids = AppendedIds

\* C24: two entities whose entityUrn differ never receive the same identity.
C24_DistinctUrnsDistinctIds ==
    (/\ fpc = "returned"
     /\ fargs[1].entityUrn # <<>>
     /\ fargs[2].entityUrn # <<>>
     /\ fargs[1].entityUrn # fargs[2].entityUrn) => fret[1] # fret[2]

\* C25: within one run no two emitted posts have the same global number,
\* whatever the pages hold, a page with more references than its range asked
\* for included.
C25_DistinctNumbers ==
    \A a, b \in 1..Len(all_posts_data) :
        a # b => all_posts_data[a].post_order # all_posts_data[b].post_order

\* The worker of the run that start_scraping accepted last.
OwnWorker == Len(workers)

\* A step in which worker w calls complete_scraping, fail_scraping or
\* ensure_cleanup.
Ends(w) == CompleteScraping(w) \/ FailScraping(w) \/ EnsureCleanup(w)

\* The run of worker w was force-reset by the call of start_scraping that
\* started the run in progress: that call found the status RUNNING and over
\* the bound, and w is the worker of the run it found.
ForceReset(w) == start_result = "reset" /\ w = OwnWorker - 1

\* C26: the terminal status of a run is set by its own worker only: when the
\* worker of an earlier run that was force-reset calls complete_scraping,
\* fail_scraping or ensure_cleanup, neither _state nor any other status field
\* of the run in progress changes.
C26_StaleWorkerChangesNothing ==
    [][\A w \in 1..Len(workers) :
          (ForceReset(w) /\ Ends(w)) => UNCHANGED <<state, StatusFields>>]_vars

\* The worker w is inside run_scrape.
InRunScrape(w) == workers[w].at = "scrape"

\* C27: no two worker threads execute run_scrape at the same time.
C27_OneWorkerAtATime ==
    \A v, w \in 1..Len(workers) : (InRunScrape(v) /\ InRunScrape(w)) => v = w

\* C28: complete_scraping, fail_scraping and ensure_cleanup act only on a
\* RUNNING status, which they turn into COMPLETED or FAILED, touching _state,
\* _error and _progress alone; in any other state they change no status
\* field. So no step takes TIMEOUT to COMPLETED or FAILED, or COMPLETED to
\* FAILED.
C28_EndsOnlyWhenRunning ==
    /\ [][\A w \in 1..Len(workers) :
             Ends(w) =>
                 IF state = "RUNNING"
                 THEN /\ state' \in {"COMPLETED", "FAILED"}
                      /\ UNCHANGED <<started_at, current_user, total_users,
                                     completed_users>>
                 ELSE UNCHANGED <<state, StatusFields>>]_vars
    /\ [][state = "TIMEOUT" => state' \notin {"COMPLETED", "FAILED"}]_vars
    /\ [][state = "COMPLETED" => state' # "FAILED"]_vars

\* The only run was timed out, and its worker has since gone through
\* fail_scraping or complete_scraping and through ensure_cleanup: the status
\* is still TIMEOUT.
C28_Witness ==
    /\ state = "TIMEOUT"
    /\ Len(workers) = 1
    /\ workers[1].at = "done"

\* C29: 0 <= completed_users <= total_users in every state.
C29_CompletedWithinTotal ==
    0 <= completed_users /\ completed_users <= total_users

\* The calls of fetch_profile_activity that returned a page.
SuccessfulFetches == {k \in 1..Len(responses) : Fetched(k)}

\* C30: after a run the saved pages are a prefix of the requested ranges, in
\* range order, one for each fetch that succeeded, and no more fetches were
\* issued than ranges were requested.
C30_SavedPagesArePrefix ==
    Returned =>
        /\ Len(saved_files) <= Len(ranges)
        /\ \A i \in 1..Len(saved_files) : saved_files[i].range = ranges[i]
        /\ Len(saved_files) = Cardinality(SuccessfulFetches)
        /\ Len(requests) <= Len(ranges)

====
